---- MODULE Spec2Model ----
(***************************************************************************)
(* A model of the crypto arbitrage services: the execution coordinator     *)
(* (src/execution/main.py) with the endpoints that write an opportunity's  *)
(* status (src/arb_engine/main.py, src/tg_manager/main.py), the funds      *)
(* router with its cache lock (src/funds_router/main.py,                   *)
(* src/common/redis_utils.py) and the market data fanout                   *)
(* (src/market_data/main.py).                                              *)
(*                                                                         *)
(* Every HTTP handler and every module-level coroutine is an operation the *)
(* environment may invoke.  A coroutine is cut into steps at its awaits;   *)
(* awaits whose interleaving with other tasks cannot change what anyone    *)
(* reads or writes are merged into the step before them.  Venue, cache and *)
(* database answers are inputs drawn from small sets.  The passage of time *)
(* is not measured: a timeout or a TTL expiry may happen at any step where *)
(* the code allows it.                                                     *)
(***************************************************************************)
EXTENDS Integers, Sequences, FiniteSets, TLC

VARIABLES
    \* ---- durable log and cache, opportunity side
    oppStatus,      \* arbitrage_opportunities.status by id ("NONE": no row)
    oppEdges,       \* the edges stored with the opportunity (sides of its legs)
    oppCached,      \* arbitrage:opportunity:{id} present in the cache
    activeOpp,      \* arb_engine.active_opportunities (ids)
    pendingConf,    \* tg_manager.pending_confirmations (ids)
    \* ---- execution service
    runs,           \* invocations of execute_arbitrage_opportunity
    orders,         \* orders at the venue, by (run, leg)
    trades,         \* trades rows, by (run, leg): the row's status
    \* ---- funds router
    lock,           \* lock:transfer_{from}_{currency} -> holder identifier (0: no key)
    xfer,           \* invocations of transfer_funds
    transfers,      \* fund_transfers rows, by the invocation that inserted them
    monitor,        \* monitor_transfer_status tasks, by transfer
    \* ---- market data service
    exchange_instances,  \* venues with a registered adapter
    connection_status,   \* venue -> [known, error_count]
    exchange_status,     \* exchange:status:{venue} in the cache
    tasks,               \* fetch_ticker_data invocations in flight
    tickerLoop,          \* position of fetch_all_tickers
    tickers,             \* market:{venue}:{pair}:ticker in the cache
    status_keys,         \* the keys of connection_status, in insertion order
    connMonitor,         \* position of monitor_connections
    recycled,            \* history: what happened since the adapter was last closed
    leaked,              \* history: venues with an adapter instance that was created,
                         \* is registered nowhere and was never closed
    \* ---- arbitrage engine
    price_graph,    \* the module's nx.DiGraph: nodes and edges in insertion order
    scan,           \* position of update_price_graph within a scan
    cycles,         \* what find_negative_cycles returned in the last scan
    \* ---- system metrics in the cache
    metric,         \* the list metrics:{service}:{name}: the timestamps of its entries
    updaters,       \* the update_system_metric calls in progress for that key
    clock           \* the time of day, in ticks

execVars == <<oppStatus, oppEdges, oppCached, activeOpp, pendingConf, runs, orders, trades>>
xferVars == <<lock, xfer, transfers, monitor>>
mktVars == <<exchange_instances, connection_status, exchange_status, tasks, tickerLoop,
            tickers, status_keys, connMonitor, recycled, leaked>>
scanVars == <<price_graph, scan, cycles>>
metricVars == <<metric, updaters, clock>>
vars == <<execVars, xferVars, mktVars, scanVars, metricVars>>

\* each service runs in a process of its own: its steps leave the others' state alone
ExecOnly == UNCHANGED <<xferVars, mktVars, scanVars, metricVars>>
XferOnly == UNCHANGED <<execVars, mktVars, scanVars, metricVars>>
MktOnly == UNCHANGED <<execVars, xferVars, scanVars, metricVars>>
ScanOnly == UNCHANGED <<execVars, xferVars, metricVars>>
MetricOnly == UNCHANGED <<execVars, xferVars, mktVars, scanVars>>

(***************************************************************************)
(* Bounds of the model.                                                    *)
(***************************************************************************)
MaxOpps == 1        \* opportunities persisted
MaxRuns == 2        \* invocations of execute_arbitrage_opportunity
MaxLegs == 2        \* legs of a cycle
MaxPolls == 2       \* passes of the fill-wait loop before the 60 s are over
MaxTransfers == 2   \* invocations of transfer_funds
MaxCalls == 1       \* fetch_ticker_data calls from outside the loop that are in flight
MaxStamps == 102    \* update_system_metric calls for one key
MaxOverlaps == 1    \* those of them made by the second caller

OppIds == 1..MaxOpps
RunIds == 1..MaxRuns
LegIds == 1..MaxLegs

(***************************************************************************)
(* Opportunities: persistence, cache, and the endpoints writing status.    *)
(***************************************************************************)
Sides == {"buy", "sell"}
\* the cycles an opportunity may hold: two legs or more, each a buy or a sell
CycleShapes == UNION {[1..n -> Sides] : n \in 2..MaxLegs}

\* the price every leg was planned at, and what the ticker cache may answer:
\* nothing, an invalid price, and prices below, at and above the planned one.
\* The answers stay away from the 0.5 % tolerance itself, where the float
\* product of line 246 can differ from the exact one by a rounding error
PlannedPrice == 1000
NoTicker == -1
TickerAnswers == {NoTicker, 0, PlannedPrice - 6, PlannedPrice, PlannedPrice + 6}

TerminalOpp == {"COMPLETED", "FAILED", "CANCELED"}

update_opportunity_status(st, o, s) ==
    IF st[o] # "NONE" THEN [st EXCEPT ![o] = s] ELSE st

\* process_arbitrage_opportunity: insert the row (DETECTED), cache it, track it
process_arbitrage_opportunity(o, shape) ==
    /\ oppStatus[o] = "NONE"
    /\ \A j \in OppIds : j < o => oppStatus[j] # "NONE"
    /\ oppStatus' = [oppStatus EXCEPT ![o] = "DETECTED"]
    /\ oppEdges' = [oppEdges EXCEPT ![o] = shape]
    /\ oppCached' = [oppCached EXCEPT ![o] = TRUE]
    /\ activeOpp' = activeOpp \cup {o}
    /\ UNCHANGED <<pendingConf, runs, orders, trades>>
    /\ ExecOnly

\* the cache entry's TTL (300 s) runs out
OpportunityExpires(o) ==
    /\ oppCached[o]
    /\ oppCached' = [oppCached EXCEPT ![o] = FALSE]
    /\ UNCHANGED <<oppStatus, oppEdges, activeOpp, pendingConf, runs, orders, trades>>
    /\ ExecOnly

\* arb_engine POST /opportunity/{id}/execute
EngineExecute(o) ==
    /\ o \in activeOpp
    /\ oppStatus' = update_opportunity_status(oppStatus, o, "EXECUTING")
    /\ UNCHANGED <<oppEdges, oppCached, activeOpp, pendingConf, runs, orders, trades>>
    /\ ExecOnly

\* arb_engine POST /opportunity/{id}/cancel
EngineCancel(o) ==
    /\ o \in activeOpp
    /\ oppStatus' = update_opportunity_status(oppStatus, o, "CANCELED")
    /\ UNCHANGED <<oppEdges, oppCached, activeOpp, pendingConf, runs, orders, trades>>
    /\ ExecOnly

\* tg_manager send_trade_confirmation_request (message delivered)
RequestConfirmation(o) ==
    /\ o \notin pendingConf
    /\ pendingConf' = pendingConf \cup {o}
    /\ UNCHANGED <<oppStatus, oppEdges, oppCached, activeOpp, runs, orders, trades>>
    /\ ExecOnly

\* tg_manager process_confirmation
process_confirmation(o, confirmed) ==
    /\ o \in pendingConf
    /\ oppStatus' = update_opportunity_status(oppStatus, o,
                        IF confirmed THEN "EXECUTING" ELSE "CANCELED")
    /\ UNCHANGED <<oppEdges, oppCached, activeOpp, pendingConf, runs, orders, trades>>
    /\ ExecOnly

(***************************************************************************)
(* Execution coordinator: execute_arbitrage_opportunity.                   *)
(***************************************************************************)
NoOrder == [st |-> "none", creq |-> FALSE]
IdleRun == [opp |-> 0, pc |-> "idle", leg |-> 0, polls |-> 0, cur |-> NoTicker,
            abort |-> "none", wrote |-> "NONE"]

\* mutant: only the buy side is checked
PriceMovedBuyOnly(side, current, price) ==
    side = "buy" /\ current * 1000 > price * 1005

\* line 246: has the price moved unfavorably
PriceMoved(side, current, price) ==
    \/ side = "buy" /\ current * 1000 > price * 1005
    \/ side = "sell" /\ current * 1000 < price * 995

\* exchange.cancel_order at the venue: only an open order can be canceled
CancelAtVenue(ord, ok) ==
    [st |-> IF ord.st = "open" /\ ok THEN "canceled" ELSE ord.st, creq |-> TRUE]

\* "Cancel all previous orders": the orders of the legs before the current one
\* (all of them were seen closed, so the venue refuses)
CancelPrevious(ords, leg) ==
    [k \in LegIds |-> IF k < leg /\ ords[k].st # "none"
                      THEN CancelAtVenue(ords[k], TRUE) ELSE ords[k]]

\* mutant: the timed-out trade is written FAILED like a rejected one
AbortedTradeStatusAlwaysFailed(abort) ==
    "FAILED"

\* the status written to the trade of the leg that aborted (lines 316, 330)
AbortedTradeStatus(abort) ==
    IF abort = "timeout" THEN "CANCELED" ELSE "FAILED"

\* the run returns; `wrote` keeps the last status it wrote to its opportunity
Finish(r, abort, s) ==
    [runs[r] EXCEPT !.pc = "done", !.abort = abort, !.wrote = s]

\* execution POST /execute/{id}: the background task is created
execute_opportunity(r, o) ==
    /\ runs[r].pc = "idle"
    /\ \A q \in RunIds : q < r => runs[q].pc # "idle"
    /\ runs' = [runs EXCEPT ![r] = [IdleRun EXCEPT !.opp = o, !.pc = "begin"]]
    /\ UNCHANGED <<oppStatus, oppEdges, oppCached, activeOpp, pendingConf, orders, trades>>
    /\ ExecOnly

\* lines 195-209: read the cache, mark EXECUTING
Begin(r) ==
    /\ runs[r].pc = "begin"
    /\ LET o == runs[r].opp IN
       IF ~oppCached[o]
       THEN /\ oppStatus' = update_opportunity_status(oppStatus, o, "FAILED")
            /\ runs' = [runs EXCEPT ![r] = Finish(r, "nocache", "FAILED")]
       ELSE IF Len(oppEdges[o]) = 0
       THEN /\ oppStatus' = update_opportunity_status(oppStatus, o, "FAILED")
            /\ runs' = [runs EXCEPT ![r] = Finish(r, "noedges", "FAILED")]
       ELSE /\ oppStatus' = update_opportunity_status(oppStatus, o, "EXECUTING")
            /\ runs' = [runs EXCEPT ![r].pc = "check", ![r].leg = 1, ![r].wrote = "EXECUTING"]
    /\ UNCHANGED <<oppEdges, oppCached, activeOpp, pendingConf, orders, trades>>
    /\ ExecOnly

\* lines 226-252: re-read the ticker, abort on a missing, invalid or drifted price
CheckPrice(r) ==
    /\ runs[r].pc = "check"
    /\ \E t \in TickerAnswers :
         LET o == runs[r].opp
             side == oppEdges[o][runs[r].leg]
             why == IF t = NoTicker THEN "noticker"
                    ELSE IF t <= 0 THEN "badprice"
                    ELSE IF PriceMoved(side, t, PlannedPrice) THEN "drift"
                    ELSE "none"
         IN IF why # "none"
            THEN /\ orders' = [orders EXCEPT ![r] = CancelPrevious(orders[r], runs[r].leg)]
                 /\ oppStatus' = update_opportunity_status(oppStatus, o, "FAILED")
                 /\ runs' = [runs EXCEPT ![r] = [Finish(r, why, "FAILED") EXCEPT !.cur = t]]
            ELSE /\ runs' = [runs EXCEPT ![r].pc = "place", ![r].cur = t]
                 /\ UNCHANGED <<orders, oppStatus>>
    /\ UNCHANGED <<oppEdges, oppCached, activeOpp, pendingConf, trades>>
    /\ ExecOnly

\* lines 260-267: place_order; None aborts
PlaceOrder(r) ==
    /\ runs[r].pc = "place"
    /\ \E ok \in BOOLEAN :
         IF ok
         THEN /\ orders' = [orders EXCEPT ![r][runs[r].leg] = [st |-> "open", creq |-> FALSE]]
              /\ runs' = [runs EXCEPT ![r].pc = "record", ![r].cur = NoTicker]
              /\ UNCHANGED oppStatus
         ELSE /\ orders' = [orders EXCEPT ![r] = CancelPrevious(orders[r], runs[r].leg)]
              /\ oppStatus' = update_opportunity_status(oppStatus, runs[r].opp, "FAILED")
              /\ runs' = [runs EXCEPT ![r] = Finish(r, "place", "FAILED")]
    /\ UNCHANGED <<oppEdges, oppCached, activeOpp, pendingConf, trades>>
    /\ ExecOnly

\* lines 273-296: add_trade (status OPEN), start the fill wait
RecordTrade(r) ==
    /\ runs[r].pc = "record"
    /\ trades' = [trades EXCEPT ![r][runs[r].leg] = "OPEN"]
    /\ runs' = [runs EXCEPT ![r].pc = "poll", ![r].polls = 0]
    /\ UNCHANGED <<oppStatus, oppEdges, oppCached, activeOpp, pendingConf, orders>>
    /\ ExecOnly

\* lines 298-319: one pass of the fill-wait loop
PollOrder(r) ==
    /\ runs[r].pc = "poll"
    /\ runs[r].polls < MaxPolls
    /\ \E answered \in BOOLEAN :
         LET k == runs[r].leg
             st == orders[r][k].st
         IN IF ~answered \/ st = "open"
            THEN /\ runs' = [runs EXCEPT ![r].polls = @ + 1]
                 /\ UNCHANGED <<trades, orders>>
            ELSE IF st = "closed"
            THEN /\ trades' = [trades EXCEPT ![r][k] = "FILLED"]
                 /\ runs' = IF k = Len(oppEdges[runs[r].opp])
                            THEN [runs EXCEPT ![r].pc = "complete"]
                            ELSE [runs EXCEPT ![r].pc = "check", ![r].leg = k + 1]
                 /\ UNCHANGED orders
            ELSE /\ orders' = [orders EXCEPT ![r] = CancelPrevious(orders[r], k)]
                 /\ runs' = [runs EXCEPT ![r].pc = "abort_opp", ![r].abort = "rejected"]
                 /\ UNCHANGED trades
    /\ UNCHANGED <<oppStatus, oppEdges, oppCached, activeOpp, pendingConf>>
    /\ ExecOnly

\* lines 321-328: the wait is over and the order was never seen closed
FillTimeout(r) ==
    /\ runs[r].pc = "poll"
    /\ runs[r].polls >= 1
    /\ \E ok \in BOOLEAN :
         LET k == runs[r].leg
             mine == [orders[r] EXCEPT ![k] = CancelAtVenue(orders[r][k], ok)]
         IN orders' = [orders EXCEPT ![r] = CancelPrevious(mine, k)]
    /\ runs' = [runs EXCEPT ![r].pc = "abort_opp", ![r].abort = "timeout"]
    /\ UNCHANGED <<oppStatus, oppEdges, oppCached, activeOpp, pendingConf, trades>>
    /\ ExecOnly

\* lines 315, 329: update_opportunity_status(FAILED)
AbortOpportunity(r) ==
    /\ runs[r].pc = "abort_opp"
    /\ oppStatus' = update_opportunity_status(oppStatus, runs[r].opp, "FAILED")
    /\ runs' = [runs EXCEPT ![r].pc = "abort_trade", ![r].wrote = "FAILED"]
    /\ UNCHANGED <<oppEdges, oppCached, activeOpp, pendingConf, orders, trades>>
    /\ ExecOnly

\* lines 316-317, 330-331: update_trade_status, return False
AbortTrade(r) ==
    /\ runs[r].pc = "abort_trade"
    /\ trades' = [trades EXCEPT ![r][runs[r].leg] = AbortedTradeStatus(runs[r].abort)]
    /\ runs' = [runs EXCEPT ![r] = Finish(r, runs[r].abort, runs[r].wrote)]
    /\ UNCHANGED <<oppStatus, oppEdges, oppCached, activeOpp, pendingConf, orders>>
    /\ ExecOnly

\* line 334: all legs filled
CompleteOpportunity(r) ==
    /\ runs[r].pc = "complete"
    /\ oppStatus' = update_opportunity_status(oppStatus, runs[r].opp, "COMPLETED")
    /\ runs' = [runs EXCEPT ![r].pc = "metric", ![r].wrote = "COMPLETED"]
    /\ UNCHANGED <<oppEdges, oppCached, activeOpp, pendingConf, orders, trades>>
    /\ ExecOnly

\* lines 339-342: the profit metric is written, return True
ReportProfit(r) ==
    /\ runs[r].pc = "metric"
    /\ runs' = [runs EXCEPT ![r] = Finish(r, "none", runs[r].wrote)]
    /\ UNCHANGED <<oppStatus, oppEdges, oppCached, activeOpp, pendingConf, orders, trades>>
    /\ ExecOnly

\* lines 344-347: a cache or database call raises (get_ticker, add_trade,
\* update_system_metric); the handler marks the opportunity FAILED
RaiseInRun(r) ==
    /\ runs[r].pc \in {"check", "record", "metric"}
    /\ oppStatus' = update_opportunity_status(oppStatus, runs[r].opp, "FAILED")
    /\ runs' = [runs EXCEPT ![r] = Finish(r, "exception", "FAILED")]
    /\ UNCHANGED <<oppEdges, oppCached, activeOpp, pendingConf, orders, trades>>
    /\ ExecOnly

\* the venue fills an open order
VenueFills(r, k) ==
    /\ orders[r][k].st = "open"
    /\ orders' = [orders EXCEPT ![r][k].st = "closed"]
    /\ UNCHANGED <<oppStatus, oppEdges, oppCached, activeOpp, pendingConf, runs, trades>>
    /\ ExecOnly

\* the venue cancels, expires or rejects an open order
VenueRejects(r, k) ==
    /\ orders[r][k].st = "open"
    /\ orders' = [orders EXCEPT ![r][k].st = "canceled"]
    /\ UNCHANGED <<oppStatus, oppEdges, oppCached, activeOpp, pendingConf, runs, trades>>
    /\ ExecOnly

InitExec ==
    /\ oppStatus = [o \in OppIds |-> "NONE"]
    /\ oppEdges = [o \in OppIds |-> <<>>]
    /\ oppCached = [o \in OppIds |-> FALSE]
    /\ activeOpp = {}
    /\ pendingConf = {}
    /\ runs = [r \in RunIds |-> IdleRun]
    /\ orders = [r \in RunIds |-> [k \in LegIds |-> NoOrder]]
    /\ trades = [r \in RunIds |-> [k \in LegIds |-> "none"]]

NextExec ==
    \/ \E o \in OppIds, shape \in CycleShapes : process_arbitrage_opportunity(o, shape)
    \/ \E o \in OppIds : OpportunityExpires(o)
    \/ \E o \in OppIds : EngineExecute(o)
    \/ \E o \in OppIds : EngineCancel(o)
    \/ \E o \in OppIds : RequestConfirmation(o)
    \/ \E o \in OppIds, c \in BOOLEAN : process_confirmation(o, c)
    \/ \E r \in RunIds, o \in OppIds : execute_opportunity(r, o)
    \/ \E r \in RunIds : Begin(r)
    \/ \E r \in RunIds : CheckPrice(r)
    \/ \E r \in RunIds : PlaceOrder(r)
    \/ \E r \in RunIds : RecordTrade(r)
    \/ \E r \in RunIds : PollOrder(r)
    \/ \E r \in RunIds : FillTimeout(r)
    \/ \E r \in RunIds : AbortOpportunity(r)
    \/ \E r \in RunIds : AbortTrade(r)
    \/ \E r \in RunIds : CompleteOpportunity(r)
    \/ \E r \in RunIds : ReportProfit(r)
    \/ \E r \in RunIds : RaiseInRun(r)
    \/ \E r \in RunIds, k \in LegIds : VenueFills(r, k)
    \/ \E r \in RunIds, k \in LegIds : VenueRejects(r, k)

(***************************************************************************)
(* Claims about the opportunity and its trades.                            *)
(***************************************************************************)
\* the trades rows of opportunity o: (run, leg) pairs
TradesOf(o) ==
    {rk \in RunIds \X LegIds : runs[rk[1]].opp = o /\ trades[rk[1]][rk[2]] # "none"}

\* C1: once an opportunity's persisted status is COMPLETED, FAILED or CANCELED,
\* no later operation changes it.
C1_TerminalStatusIsFinal ==
    [][\A o \in OppIds :
         oppStatus[o] \in TerminalOpp => oppStatus'[o] = oppStatus[o]]_vars

\* C2: every trade of an opportunity that reads COMPLETED is FILLED.
C2_CompletedAllFilled ==
    \A o \in OppIds :
        oppStatus[o] = "COMPLETED" =>
            \A rk \in TradesOf(o) : trades[rk[1]][rk[2]] = "FILLED"

\* C3: no trade of an opportunity that reads FAILED is OPEN.
C3_FailedNoOpenTrade ==
    \A o \in OppIds :
        oppStatus[o] = "FAILED" =>
            \A rk \in TradesOf(o) : trades[rk[1]][rk[2]] # "OPEN"

\* the claim's tolerance: buy, current > planned * 1.005; sell, current < planned * 0.995
Drifted(side, current) ==
    IF side = "buy" THEN 1000 * current > 1005 * PlannedPrice
                    ELSE 1000 * current < 995 * PlannedPrice

\* C9: a run that reads, for leg k, a price moved beyond the tolerance returns at
\* once: it has placed no order and created no trade for leg k or a later leg, the
\* trades of its earlier legs are FILLED, and it has marked the opportunity FAILED;
\* on leg 1 the run leaves no trade at all (and the opportunity has none, when no
\* other run executes it).
C9_DriftAbortsBeforeOrder ==
    \A r \in RunIds :
        LET k == runs[r].leg
            o == runs[r].opp
        IN (k >= 1 /\ runs[r].cur > 0 /\ Drifted(oppEdges[o][k], runs[r].cur)) =>
             /\ runs[r].pc = "done"
             /\ runs[r].wrote = "FAILED"
             /\ \A j \in LegIds : j >= k => orders[r][j] = NoOrder /\ trades[r][j] = "none"
             /\ \A j \in LegIds : j < k => trades[r][j] = "FILLED"
             /\ (k = 1 /\ \A q \in RunIds \ {r} : runs[q].opp # o) => TradesOf(o) = {}

\* a run aborted on a drifted price at its second leg, the first one filled
C9_Witness ==
    \E r \in RunIds :
        /\ runs[r].pc = "done" /\ runs[r].abort = "drift" /\ runs[r].leg = 2
        /\ Drifted(oppEdges[runs[r].opp][2], runs[r].cur)
        /\ trades[r][1] = "FILLED" /\ orders[r][2] = NoOrder

C11_LegsSequential ==
    /\ \A r \in RunIds, k \in LegIds :
          (k > 1 /\ orders[r][k].st # "none") => trades[r][k - 1] = "FILLED"
    /\ \A r, q \in RunIds, k, j \in LegIds :
          (runs[r].opp # 0 /\ runs[r].opp = runs[q].opp /\ k # j)
          => ~(orders[r][k].st = "open" /\ orders[q][j].st = "open")

\* C12: an opportunity enters EXECUTING only from PENDING_APPROVAL.
C12_ExecutingOnlyAfterApproval ==
    [][\A o \in OppIds :
         (oppStatus'[o] = "EXECUTING" /\ oppStatus[o] # "EXECUTING")
         => oppStatus[o] = "PENDING_APPROVAL"]_vars

\* C13: a run that finds the opportunity's cache entry expired, the opportunity
\* never having been started, marks it CANCELED and places no order.
C13_ExpiryCancels ==
    \A r \in RunIds :
        (/\ runs[r].abort = "nocache"
         /\ oppStatus[runs[r].opp] # "NONE"
         /\ \A q \in RunIds \ {r} : runs[q].opp # runs[r].opp)
        => /\ runs[r].wrote = "CANCELED"
           /\ \A k \in LegIds : orders[r][k] = NoOrder

\* C31: a rollback leaves the earlier legs as they are: a trade that is FILLED
\* stays FILLED, the step that aborts a run creates no order, and a cancel is
\* requested for the order of an earlier leg only when that order is open.
C31_RollbackLeavesFills ==
    [][\A r \in RunIds, k \in LegIds :
         /\ trades[r][k] = "FILLED" => trades'[r][k] = "FILLED"
         /\ (runs[r].abort = "none" /\ runs'[r].abort # "none")
            => (orders[r][k].st = "none" => orders'[r][k].st = "none")
         /\ (k < runs[r].leg /\ ~orders[r][k].creq /\ orders'[r][k].creq)
            => orders[r][k].st = "open"]_vars

\* C36: in the step in which a run returns, its opportunity (when it has a
\* row) reads COMPLETED or FAILED.
C36_RunEndsTerminal ==
    [][\A r \in RunIds :
         (runs[r].pc # "done" /\ runs'[r].pc = "done" /\ oppStatus'[runs'[r].opp] # "NONE")
         => oppStatus'[runs'[r].opp] \in {"COMPLETED", "FAILED"}]_vars

\* C37: no leg of an opportunity has an order from more than one run.
C37_OneRunPlacesOrders ==
    \A r, q \in RunIds, k \in LegIds :
        (r # q /\ runs[r].opp # 0 /\ runs[r].opp = runs[q].opp)
        => ~(orders[r][k].st # "none" /\ orders[q][k].st # "none")

\* C38: the order of a trade recorded CANCELED is canceled at the venue: it
\* is not open and it has not filled.
C38_CanceledTradeOrderCanceled ==
    \A r \in RunIds, k \in LegIds :
        trades[r][k] = "CANCELED" => orders[r][k].st = "canceled"



(***************************************************************************)
(* Funds router: transfer_funds under the cache lock, and the monitor.     *)
(***************************************************************************)
Venues == {"okx", "bybit"}
Currencies == {"USDT"}
\* the lock names transfer_{from_exchange}_{currency}
LockNames == Venues \X Currencies
XferIds == 1..MaxTransfers

MAX_TRANSFER_TIME == 60
MonitorSleep == 30
\* passes of the monitor loop that can start before MAX_TRANSFER_TIME is over
MonitorPasses == MAX_TRANSFER_TIME \div MonitorSleep

IdleXfer == [name |-> <<"okx", "USDT">>, pc |-> "idle", acquired |-> FALSE,
             queried |-> FALSE, seen |-> 0, exit |-> "none", rivals |-> {},
             balance |-> "unasked"]
NoTransfer == [status |-> "none", txid |-> FALSE]
NoMonitor == [pc |-> "off", polls |-> 0, terminal |-> FALSE]

\* the request holds the section between acquire_lock and the end of release_lock
InSection(p) == xfer[p].acquired /\ xfer[p].pc # "done"

\* the requests for the same lock name that are inside the section
Rivals(p) == {q \in XferIds \ {p} : xfer[q].name = xfer[p].name /\ InSection(q)}

\* acquire_lock: SET lock_key identifier NX EX 10; the identifier is the time of
\* the call, which no two holders of one key share: the invocation stands for it
acquire_lock(lk, name, identifier) ==
    IF lk[name] = 0 THEN [lk EXCEPT ![name] = identifier] ELSE lk

\* mutant: the comparison of release_lock is inverted
release_lock_delete_inverted(lk, name, identifier, current) ==
    IF current # identifier THEN [lk EXCEPT ![name] = 0] ELSE lk

\* release_lock, lines 222-226: DELETE when the value read was the caller's
release_lock_delete(lk, name, identifier, current) ==
    IF current = identifier THEN [lk EXCEPT ![name] = 0] ELSE lk

\* POST /transfer: transfer_funds is called
CallTransfer(p, name) ==
    /\ xfer[p].pc = "idle"
    /\ \A q \in XferIds : q < p => xfer[q].pc # "idle"
    /\ xfer' = [xfer EXCEPT ![p] = [IdleXfer EXCEPT !.name = name, !.pc = "acquire"]]
    /\ UNCHANGED <<lock, transfers, monitor>>
    /\ XferOnly

\* lines 302-305
AcquireLock(p) ==
    /\ xfer[p].pc = "acquire"
    /\ lock' = acquire_lock(lock, xfer[p].name, p)
    /\ xfer' = IF lock'[xfer[p].name] = p
               THEN [xfer EXCEPT ![p].pc = "balance", ![p].acquired = TRUE,
                                 ![p].rivals = Rivals(p)]
               ELSE [xfer EXCEPT ![p].pc = "done", ![p].exit = "busy",
                                 ![p].rivals = Rivals(p)]
    /\ UNCHANGED <<transfers, monitor>>
    /\ XferOnly

\* what get_balance can answer: None (the call or the adapter failed), a
\* record whose free amount the venue left empty, a free amount below the
\* requested one, or one that covers it
BalanceAnswers == {"none", "nofree", "low", "enough"}

\* mutant: only a missing answer stops the transfer
balance_covers_unless_missing(b) == b # "none"

\* line 317, negated: not balance or balance.get('free', 0) < amount.  The
\* comparison of an empty free amount raises TypeError, which leaves
\* through the finally blocks like the abort does.
balance_covers(b) == b = "enough"

\* lines 316-319
CheckBalance(p) ==
    /\ xfer[p].pc = "balance"
    /\ \E b \in BalanceAnswers :
         xfer' = IF balance_covers(b)
                 THEN [xfer EXCEPT ![p].pc = "address", ![p].queried = TRUE,
                                   ![p].balance = b]
                 ELSE [xfer EXCEPT ![p].pc = "release", ![p].queried = TRUE,
                                   ![p].balance = b,
                                   ![p].exit = IF b = "nofree" THEN "raised" ELSE "balance"]
    /\ UNCHANGED <<lock, transfers, monitor>>
    /\ XferOnly

\* lines 322-331: the fee, then the deposit address (None or without address: abort)
GetDepositAddress(p) ==
    /\ xfer[p].pc = "address"
    /\ \E ok \in BOOLEAN :
         xfer' = IF ok THEN [xfer EXCEPT ![p].pc = "persist"]
                       ELSE [xfer EXCEPT ![p].pc = "release", ![p].exit = "address"]
    /\ UNCHANGED <<lock, transfers, monitor>>
    /\ XferOnly

\* mutant: the withdrawal is issued before the row is written
PersistTransferSkipped(p) ==
    /\ xfer[p].pc = "persist"
    /\ xfer' = [xfer EXCEPT ![p].pc = "withdraw"]
    /\ UNCHANGED <<lock, transfers, monitor>>
    /\ XferOnly

\* lines 334-341: add_fund_transfer, the row starts PENDING
PersistTransfer(p) ==
    /\ xfer[p].pc = "persist"
    /\ transfers' = [transfers EXCEPT ![p].status = "PENDING"]
    /\ xfer' = [xfer EXCEPT ![p].pc = "withdraw"]
    /\ UNCHANGED <<lock, monitor>>
    /\ XferOnly

\* lines 344-372: withdraw_funds; on success the monitor task is created
Withdraw(p) ==
    /\ xfer[p].pc = "withdraw"
    /\ \E ok \in BOOLEAN :
         IF ok
         THEN /\ transfers' = [transfers EXCEPT ![p] = [status |-> "PENDING", txid |-> TRUE]]
              /\ monitor' = [monitor EXCEPT ![p].pc = "polling"]
              /\ xfer' = [xfer EXCEPT ![p].pc = "release", ![p].exit = "ok"]
         ELSE /\ transfers' = [transfers EXCEPT ![p].status = "FAILED"]
              /\ xfer' = [xfer EXCEPT ![p].pc = "release", ![p].exit = "withdraw"]
              /\ UNCHANGED monitor
    /\ UNCHANGED lock
    /\ XferOnly

\* add_fund_transfer raises: the error leaves through both finally blocks
RaiseInTransfer(p) ==
    /\ xfer[p].pc = "persist"
    /\ xfer' = [xfer EXCEPT ![p].pc = "release", ![p].exit = "raised"]
    /\ UNCHANGED <<lock, transfers, monitor>>
    /\ XferOnly

\* release_lock, line 221: GET
ReleaseRead(p) ==
    /\ xfer[p].pc = "release"
    /\ xfer' = [xfer EXCEPT ![p].pc = "release2", ![p].seen = lock[xfer[p].name]]
    /\ UNCHANGED <<lock, transfers, monitor>>
    /\ XferOnly

\* release_lock, lines 222-226: compare, DELETE
ReleaseDelete(p) ==
    /\ xfer[p].pc = "release2"
    /\ lock' = release_lock_delete(lock, xfer[p].name, p, xfer[p].seen)
    /\ xfer' = [xfer EXCEPT ![p].pc = "done"]
    /\ UNCHANGED <<transfers, monitor>>
    /\ XferOnly

\* the key's TTL (10 s) runs out; nothing refreshes it
LockExpires(name) ==
    /\ lock[name] # 0
    /\ lock' = [lock EXCEPT ![name] = 0]
    /\ UNCHANGED <<xfer, transfers, monitor>>
    /\ XferOnly

\* monitor_transfer_status, lines 387-421: one pass of the loop.  The status is
\* written through a session built without an engine (lines 397, 407): the
\* write may raise, and the handler of line 419 then sleeps and goes on
MonitorPoll(t) ==
    /\ monitor[t].pc = "polling"
    /\ monitor[t].polls < MonitorPasses
    /\ \E st \in {"absent", "pending", "ok", "failed"}, written \in BOOLEAN :
         IF st = "ok" /\ written
         THEN /\ transfers' = [transfers EXCEPT ![t].status = "COMPLETED"]
              /\ monitor' = [monitor EXCEPT ![t].pc = "done"]
         ELSE IF st = "failed" /\ written
         THEN /\ transfers' = [transfers EXCEPT ![t].status = "FAILED"]
              /\ monitor' = [monitor EXCEPT ![t].pc = "done"]
         ELSE /\ monitor' = [monitor EXCEPT ![t].polls = @ + 1,
                                             ![t].terminal = @ \/ st \in {"ok", "failed"}]
              /\ UNCHANGED transfers
    /\ UNCHANGED <<lock, xfer>>
    /\ XferOnly

\* lines 424-431: MAX_TRANSFER_TIME is over and no terminal status was seen
MonitorTimeout(t) ==
    /\ monitor[t].pc = "polling"
    /\ monitor[t].polls >= 1
    /\ \E written \in BOOLEAN :
         transfers' = IF written THEN [transfers EXCEPT ![t].status = "UNKNOWN"]
                                 ELSE transfers
    /\ monitor' = [monitor EXCEPT ![t].pc = "done"]
    /\ UNCHANGED <<lock, xfer>>
    /\ XferOnly

InitXfer ==
    /\ lock = [n \in LockNames |-> 0]
    /\ xfer = [p \in XferIds |-> IdleXfer]
    /\ transfers = [p \in XferIds |-> NoTransfer]
    /\ monitor = [p \in XferIds |-> NoMonitor]

NextXfer ==
    \/ \E p \in XferIds, n \in LockNames : CallTransfer(p, n)
    \/ \E p \in XferIds : AcquireLock(p)
    \/ \E p \in XferIds : CheckBalance(p)
    \/ \E p \in XferIds : GetDepositAddress(p)
    \/ \E p \in XferIds : PersistTransfer(p)
    \/ \E p \in XferIds : Withdraw(p)
    \/ \E p \in XferIds : RaiseInTransfer(p)
    \/ \E p \in XferIds : ReleaseRead(p)
    \/ \E p \in XferIds : ReleaseDelete(p)
    \/ \E n \in LockNames : LockExpires(n)
    \/ \E t \in XferIds : MonitorPoll(t)
    \/ \E t \in XferIds : MonitorTimeout(t)

(***************************************************************************)
(* Claims about transfers and the lock.                                    *)
(***************************************************************************)
\* the withdrawal of transfer t was issued and its row has reached no terminal status
InFlight(t) == transfers[t].txid /\ transfers[t].status = "PENDING"

\* C4: for every (from_venue, currency) at most one withdrawal is in flight.
C4_OneWithdrawalInFlight ==
    \A n \in LockNames :
        Cardinality({t \in XferIds : xfer[t].name = n /\ InFlight(t)}) <= 1

\* C5: a request that calls acquire_lock while another request for the same
\* (from_venue, currency) is inside the section does not acquire the lock, and
\* a request that has not acquired it returns without a balance query, a
\* Transfer row, a withdrawal or a monitor.
C5_OneOfTwoAcquires ==
    \A p \in XferIds :
        /\ xfer[p].rivals # {} => ~xfer[p].acquired
        /\ (xfer[p].pc \notin {"idle", "acquire"} /\ ~xfer[p].acquired) =>
               /\ xfer[p].pc = "done" /\ xfer[p].exit = "busy" /\ ~xfer[p].queried
               /\ transfers[p] = NoTransfer /\ monitor[p] = NoMonitor

\* C6: no two requests for one (from_venue, currency) are both between their
\* successful acquire_lock and their release_lock.
C6_SectionIsExclusive ==
    \A p, q \in XferIds :
        (p # q /\ xfer[p].name = xfer[q].name) => ~(InSection(p) /\ InSection(q))

C22_TransferLeavesPending ==
    \A t \in XferIds :
        /\ monitor[t].pc = "done" => transfers[t].status # "PENDING"
        /\ transfers[t].status = "UNKNOWN" => ~monitor[t].terminal

\* C23: a request whose balance query gave no answer, no free amount or a
\* free amount below the requested one persists no transfer, issues no
\* withdrawal and is on its way out.
C23_NoWithdrawalWithoutBalance ==
    \A p \in XferIds :
        xfer[p].balance \in {"none", "nofree", "low"}
        => /\ transfers[p] = NoTransfer
           /\ monitor[p] = NoMonitor
           /\ xfer[p].pc \in {"release", "release2", "done"}

\* a request was refused for a low balance and has returned, while another
\* one for the same venue and currency went through to its withdrawal
C23_Witness ==
    \E p, q \in XferIds :
        /\ xfer[p].balance = "low" /\ xfer[p].pc = "done"
        /\ xfer[q].name = xfer[p].name /\ xfer[q].balance = "enough"
        /\ transfers[q].status = "PENDING" /\ transfers[q].txid

C33_RefusedTransferFailed ==
    \A p \in XferIds :
        (xfer[p].balance = "low" /\ xfer[p].pc = "done")
        => transfers[p].status = "FAILED"

\* C35: the DELETE of release_lock removes the key only when the key holds
\* the caller's identifier.
C35_ReleaseOnlyOwnLock ==
    [][\A p \in XferIds :
         (/\ xfer[p].pc = "release2" /\ xfer'[p].pc = "done"
          /\ lock[xfer[p].name] # 0 /\ lock'[xfer[p].name] = 0)
         => lock[xfer[p].name] = p]_vars

(***************************************************************************)
(* Market data service: fetch_ticker_data and the ticker loop.             *)
(***************************************************************************)
Pairs == {"BTC/USDT"}
\* a fetch_ticker_data invocation is a task of the loop's gather, or a call of its own
Origins == {"loop", "call"}
TaskIds == Origins \X Venues \X Pairs

\* line 134: more errors than this close the adapter
ErrorThreshold == 5

\* stale: last_update is more than 60 s in the past
NoStatus == [known |-> FALSE, error_count |-> 0, stale |-> FALSE]

\* a cached ticker; get_ticker answers None for a key that is not there
Quote(b, a) == [present |-> TRUE, bid |-> b, ask |-> a]
NoQuote == [present |-> FALSE, bid |-> 0, ask |-> 0]
\* what a venue may answer to fetch_ticker: bid = ask, a wide spread, bid above ask
VenueQuotes == {Quote(1, 1), Quote(1, 2), Quote(2, 1)}

\* update_ticker: HSET bid, ask as floats (the values come back unchanged from
\* get_ticker: Python's float -> text -> float is exact)
update_ticker(tk, v, p, q) == [tk EXCEPT ![<<v, p>>] = Quote(q.bid, q.ask)]

\* the adapter of v is registered (anew)
Registered(v) == [recycled EXCEPT ![v] = "no"]

\* fetch_ticker_data is called on its own
CallFetchTicker(v, p) ==
    /\ tasks[<<"call", v, p>>] = "none"
    /\ Cardinality({t \in TaskIds : t[1] = "call" /\ tasks[t] # "none"}) < MaxCalls
    /\ tasks' = [tasks EXCEPT ![<<"call", v, p>>] = "start"]
    /\ UNCHANGED <<exchange_instances, connection_status, exchange_status, tickerLoop, recycled, leaked,
                 tickers, status_keys, connMonitor>>
    /\ MktOnly

\* lines 96-98: take the registered adapter, or go and initialize one
TaskStart(t) ==
    /\ tasks[t] = "start"
    /\ tasks' = [tasks EXCEPT ![t] = IF t[2] \in exchange_instances THEN "fetch" ELSE "init"]
    /\ UNCHANGED <<exchange_instances, connection_status, exchange_status, tickerLoop, recycled, leaked,
                 tickers, status_keys, connMonitor>>
    /\ MktOnly

\* initialize_exchange (lines 31-91) returns, then lines 99-101
TaskInitialized(t) ==
    /\ tasks[t] = "init"
    /\ \E ok \in BOOLEAN :
         LET v == t[2] IN
         IF ok
         THEN /\ exchange_status' = [exchange_status EXCEPT ![v] = "connected"]
              /\ connection_status' = [connection_status EXCEPT
                                          ![v] = [known |-> TRUE, error_count |-> 0,
                                                  stale |-> FALSE]]
              /\ exchange_instances' = exchange_instances \cup {v}
              /\ recycled' = Registered(v)
              /\ leaked' = IF v \in exchange_instances THEN leaked \cup {v} ELSE leaked
              /\ tasks' = [tasks EXCEPT ![t] = "fetch"]
         ELSE /\ exchange_status' = [exchange_status EXCEPT ![v] = "error"]
              /\ connection_status' = [connection_status EXCEPT
                                          ![v] = [known |-> TRUE, error_count |-> 1,
                                                  stale |-> FALSE]]
              /\ tasks' = [tasks EXCEPT ![t] = "none"]
              /\ UNCHANGED <<exchange_instances, recycled, leaked>>
    /\ status_keys' = IF connection_status[t[2]].known THEN status_keys
                       ELSE Append(status_keys, t[2])
    /\ UNCHANGED <<tickerLoop, tickers, connMonitor>>
    /\ MktOnly

\* lines 104-123: fetch_ticker answered, the ticker is cached, the count reset
TaskFetched(t) ==
    /\ tasks[t] = "fetch"
    /\ \E q \in VenueQuotes : tickers' = update_ticker(tickers, t[2], t[3], q)
    /\ connection_status' = [connection_status EXCEPT ![t[2]].error_count = 0,
                                                        ![t[2]].stale = FALSE]
    /\ tasks' = [tasks EXCEPT ![t] = "none"]
    /\ UNCHANGED <<exchange_instances, exchange_status, tickerLoop, recycled, leaked,
                   status_keys, connMonitor>>
    /\ MktOnly

\* lines 125-139: fetch_ticker (or the cache write) raised
TaskFailed(t) ==
    /\ tasks[t] = "fetch"
    /\ LET v == t[2]
           n == connection_status[v].error_count + 1
       IN /\ connection_status' = [connection_status EXCEPT ![v].error_count = n]
          /\ IF n > ErrorThreshold
             THEN /\ exchange_instances' = exchange_instances \ {v}
                  /\ recycled' = IF v \in exchange_instances
                                 THEN [recycled EXCEPT ![v] = "closed"] ELSE recycled
             ELSE UNCHANGED <<exchange_instances, recycled>>
          /\ exchange_status' = [exchange_status EXCEPT ![v] = "error"]
    /\ tasks' = [tasks EXCEPT ![t] = "none"]
    /\ UNCHANGED <<tickerLoop, tickers, status_keys, connMonitor, leaked>>
    /\ MktOnly

\* fetch_all_tickers, lines 208-224: one task per pair of every venue that has
\* an adapter; a venue without one is skipped
TickerLoopSpawn ==
    /\ tickerLoop = "idle"
    /\ tasks' = [t \in TaskIds |->
                    IF t[1] = "loop" /\ t[2] \in exchange_instances THEN "start"
                    ELSE tasks[t]]
    /\ tickerLoop' = "gather"
    /\ recycled' = [v \in Venues |->
                       IF recycled[v] = "closed" THEN "scanning" ELSE recycled[v]]
    /\ UNCHANGED leaked
    /\ UNCHANGED <<exchange_instances, connection_status, exchange_status, tickers,
                   status_keys, connMonitor>>
    /\ MktOnly

\* lines 224-233: gather has returned, the iteration ends
TickerLoopJoin ==
    /\ tickerLoop = "gather"
    /\ \A t \in TaskIds : t[1] = "loop" => tasks[t] = "none"
    /\ tickerLoop' = "idle"
    /\ recycled' = [v \in Venues |->
                       IF recycled[v] = "scanning" THEN "missed" ELSE recycled[v]]
    /\ UNCHANGED leaked
    /\ UNCHANGED <<exchange_instances, connection_status, exchange_status, tasks, tickers,
                   status_keys, connMonitor>>
    /\ MktOnly

\* 60 s pass without an update of the venue: last_update is now too old
VenueGoesStale(v) ==
    /\ connection_status[v].known
    /\ ~connection_status[v].stale
    /\ connection_status' = [connection_status EXCEPT ![v].stale = TRUE]
    /\ UNCHANGED <<exchange_instances, exchange_status, tasks, tickerLoop, recycled, leaked,
                   tickers, status_keys, connMonitor>>
    /\ MktOnly

IdleMonitor == [pc |-> "sleep", idx |-> 0, size |-> 0, due |-> {}, left |-> {}]

\* monitor_connections, lines 193-196: the keys after position i whose venue is
\* to be closed and has an adapter; for the others the loop body awaits nothing
ToClose(i, due, cs, inst) ==
    {j \in (i + 1)..Len(status_keys) :
        /\ status_keys[j] \in due
        /\ cs[status_keys[j]].stale
        /\ status_keys[j] \in inst}

\* the smallest of a non-empty set of positions
FirstOf(S) == CHOOSE j \in S : \A k \in S : j <= k

\* lines 191-197: the sleep is over; the pass runs up to its first await, the
\* close of the first stale venue that has an adapter
MonitorWake ==
    /\ connMonitor.pc = "sleep"
    /\ LET due == {v \in Venues : connection_status[v].known /\ connection_status[v].stale}
           S == ToClose(0, due, connection_status, exchange_instances)
       IN /\ S # {}
          /\ exchange_instances' = exchange_instances \ {status_keys[FirstOf(S)]}
          /\ connMonitor' = [pc |-> "closing", idx |-> FirstOf(S),
                             size |-> Len(status_keys), due |-> due, left |-> {}]
    /\ UNCHANGED <<connection_status, exchange_status, tasks, tickerLoop, recycled, leaked,
                   tickers, status_keys>>
    /\ MktOnly

\* line 197 returns and the for loop takes its next item: RuntimeError when a
\* key was added to connection_status meanwhile (nothing catches it: the task
\* ends), else on to the next venue to close, or to the sleep of line 201
MonitorClosed ==
    /\ connMonitor.pc = "closing"
    /\ LET S == ToClose(connMonitor.idx, connMonitor.due, connection_status,
                        exchange_instances)
           open == {v \in connMonitor.due :
                       connection_status[v].stale /\ v \in exchange_instances}
       IN IF Len(status_keys) # connMonitor.size
          THEN /\ connMonitor' = [connMonitor EXCEPT !.pc = "dead", !.left = open]
               /\ UNCHANGED exchange_instances
          ELSE IF S # {}
          THEN /\ exchange_instances' = exchange_instances \ {status_keys[FirstOf(S)]}
               /\ connMonitor' = [connMonitor EXCEPT !.idx = FirstOf(S)]
          ELSE /\ connMonitor' = [connMonitor EXCEPT !.pc = "sleep", !.left = open]
               /\ UNCHANGED exchange_instances
    /\ UNCHANGED <<connection_status, exchange_status, tasks, tickerLoop, recycled, leaked,
                   tickers, status_keys>>
    /\ MktOnly

InitMkt ==
    /\ exchange_instances = {}
    /\ connection_status = [v \in Venues |-> NoStatus]
    /\ exchange_status = [v \in Venues |-> "unknown"]
    /\ tasks = [t \in TaskIds |-> "none"]
    /\ tickerLoop = "idle"
    /\ tickers = [k \in Venues \X Pairs |-> NoQuote]
    /\ status_keys = <<>>
    /\ connMonitor = IdleMonitor
    /\ recycled = [v \in Venues |-> "no"]
    /\ leaked = {}

NextMkt ==
    \/ \E v \in Venues, p \in Pairs : CallFetchTicker(v, p)
    \/ \E t \in TaskIds : TaskStart(t)
    \/ \E t \in TaskIds : TaskInitialized(t)
    \/ \E t \in TaskIds : TaskFetched(t)
    \/ \E t \in TaskIds : TaskFailed(t)
    \/ TickerLoopSpawn
    \/ TickerLoopJoin

\* the connection monitor with the fetches that register and refresh venues
NextMon ==
    \/ \E v \in Venues, p \in Pairs : CallFetchTicker(v, p)
    \/ \E t \in TaskIds : TaskStart(t)
    \/ \E t \in TaskIds : TaskInitialized(t)
    \/ \E t \in TaskIds : TaskFetched(t)
    \/ \E t \in TaskIds : TaskFailed(t)
    \/ \E v \in Venues : VenueGoesStale(v)
    \/ MonitorWake
    \/ MonitorClosed

\* line 104: the venue never answers exchange.fetch_ticker.  Nothing bounds
\* the await: neither fetch_ticker_data nor the gather of line 224 carries a
\* deadline, so the task stays where it is.
VenueHangs(t) ==
    /\ tasks[t] = "fetch"
    /\ tasks' = [tasks EXCEPT ![t] = "hung"]
    /\ UNCHANGED <<exchange_instances, connection_status, exchange_status, tickerLoop, recycled, leaked,
                   tickers, status_keys, connMonitor>>
    /\ MktOnly

\* the ticker loop with venues that may stop answering
NextLoop ==
    \/ \E v \in Venues, p \in Pairs : CallFetchTicker(v, p)
    \/ \E t \in TaskIds : TaskStart(t)
    \/ \E t \in TaskIds : TaskInitialized(t)
    \/ \E t \in TaskIds : TaskFetched(t)
    \/ \E t \in TaskIds : TaskFailed(t)
    \/ \E t \in TaskIds : VenueHangs(t)
    \/ TickerLoopSpawn
    \/ TickerLoopJoin

\* the steps of one fetch_ticker_data invocation: the event loop resumes it
\* and the venue answers it
TaskStep(t) ==
    TaskStart(t) \/ TaskInitialized(t) \/ TaskFetched(t) \/ TaskFailed(t)

\* the steps of an iteration that the event loop and an answering venue take
LoopProgress ==
    \/ \E t \in TaskIds :
          t[1] = "loop" /\ (TaskStart(t) \/ TaskInitialized(t) \/ TaskFetched(t) \/ TaskFailed(t))
    \/ TickerLoopJoin

(***************************************************************************)
(* Claims about the market data service.                                   *)
(***************************************************************************)
\* C8: when a venue's adapter was closed and removed because its error count
\* passed the threshold, the ticker-loop iteration that follows registers an
\* adapter for the venue again: no such iteration ends with the venue still
\* without one.
C8_RecycledVenueReinitialized ==
    \A v \in Venues : recycled[v] # "missed"

\* C19: every ticker in the cache has ask >= bid > 0.
C19_CachedTickersAreSane ==
    \A k \in Venues \X Pairs :
        tickers[k].present => (tickers[k].ask >= tickers[k].bid /\ tickers[k].bid > 0)

\* C20: a pass of the connection monitor leaves no venue whose last update is
\* more than 60 s old with its adapter registered, and such a venue always has
\* a monitor whose next pass will close it.
C20_MonitorClosesStaleVenues ==
    /\ connMonitor.left = {}
    /\ \A v \in Venues :
          (connection_status[v].stale /\ v \in exchange_instances)
          => connMonitor.pc # "dead"

(***************************************************************************)
(* Arbitrage engine: the rate graph and the cycle search.                  *)
(*                                                                         *)
(* The engine is another process than the market data service; it sees     *)
(* the service only through the cache, whose ticker and status keys the    *)
(* service rewrites at any time.  Every await of update_price_graph is a   *)
(* point where such a write may land.  Time is not measured: the age of a  *)
(* snapshot at the moment it is read is whatever the key's expiry allows.  *)
(* Prices are small integers and fees exact fractions, so every            *)
(* comparison of the cycle search is computed exactly.                     *)
(***************************************************************************)
BuyNum == 2003
BuyDen == 2000
SellNum == 9987
SellDen == 10000
SpreadNum == 4
SpreadDen == 1000

None == "None"
VenueOrder == <<"okx", "bybit">>
PairOrder == <<"BTC/USDT">>
Split(p) == CASE p = "BTC/USDT" -> [base |-> "BTC", quote |-> "USDT"]
              [] p = "ETH/USDT" -> [base |-> "ETH", quote |-> "USDT"]
GraphCurrencies == UNION {{Split(p).base, Split(p).quote} : p \in Pairs}
Perms(S) == {s \in [1..Cardinality(S) -> S] : \A i, j \in 1..Cardinality(S) : i # j => s[i] # s[j]}

InSeq(x, s) == \E i \in 1..Len(s) : s[i] = x
Index(x, s) == CHOOSE i \in 1..Len(s) : s[i] = x /\ \A j \in 1..(i - 1) : s[j] # x

\* effective_price = price * (1 + taker_fee + slippage) when buying,
\* price * (1 - maker_fee - slippage) when selling, as an exact fraction.
calculate_effective_price(price, is_buy) ==
    IF is_buy THEN [num |-> price * BuyNum, den |-> BuyDen]
              ELSE [num |-> price * SellNum, den |-> SellDen]

check_liquidity(t) ==
    /\ t.present
    /\ t.bid > 0 /\ t.ask > 0
    /\ ~((t.ask - t.bid) * SpreadDen > SpreadNum * t.bid)

EmptyGraph(order) == [nodes |-> order, edges |-> <<>>]

\* DiGraph.add_edge: one edge per ordered pair of nodes; adding it again
\* replaces the attributes and keeps the edge's place.
add_edge(g, e) ==
    IF \E i \in 1..Len(g.edges) : g.edges[i].u = e.u /\ g.edges[i].v = e.v
    THEN LET i == CHOOSE j \in 1..Len(g.edges) : g.edges[j].u = e.u /\ g.edges[j].v = e.v
         IN [g EXCEPT !.edges[i] = e]
    ELSE [g EXCEPT !.edges = Append(@, e)]

add_node(ns, n) == IF InSeq(n, ns) THEN ns ELSE Append(ns, n)

\* DiGraph.edges: node by node in insertion order, each node's out-edges
\* in insertion order.
edges(g) ==
    LET F[i \in 0..Len(g.nodes)] ==
            IF i = 0 THEN <<>>
            ELSE F[i - 1] \o SelectSeq(g.edges, LAMBDA e : e.u = g.nodes[i])
    IN F[Len(g.nodes)]

BuyEdge(v, p, t, old) ==
    [u |-> Split(p).quote, v |-> Split(p).base, exchange |-> v, price |-> t.ask,
     action |-> "buy", ticker |-> t, old |-> old]
SellEdge(v, p, t, old) ==
    [u |-> Split(p).base, v |-> Split(p).quote, exchange |-> v, price |-> t.bid,
     action |-> "sell", ticker |-> t, old |-> old]

\* what analyze_arbitrage_cycle came to: not called, raised, or the edges it
\* selected for the steps of the cycle
NoAnalysis == [done |-> FALSE, raised |-> FALSE, cycle_edges |-> <<>>]

IdleScan == [pc |-> "idle", vi |-> 1, pi |-> 1, ticker |-> NoQuote, old |-> FALSE, added |-> {},
             analysis |-> NoAnalysis]

NextVenue(sc) ==
    IF sc.vi < Len(VenueOrder)
    THEN [sc EXCEPT !.pc = "status", !.vi = @ + 1, !.pi = 1, !.ticker = NoQuote, !.old = FALSE]
    ELSE [sc EXCEPT !.pc = "cycles", !.ticker = NoQuote, !.old = FALSE]
NextPair(sc) ==
    IF sc.pi < Len(PairOrder)
    THEN [sc EXCEPT !.pc = "ticker", !.pi = @ + 1, !.ticker = NoQuote, !.old = FALSE]
    ELSE NextVenue(sc)

\* update_price_graph up to its first await: the graph is cleared and the
\* currencies, collected in a set, become nodes in the set's order.
ScanClear ==
    /\ scan.pc = "idle"
    /\ \E order \in Perms(GraphCurrencies) : price_graph' = EmptyGraph(order)
    /\ scan' = [IdleScan EXCEPT !.pc = "status"]
    /\ cycles' = <<>>
    /\ UNCHANGED mktVars
    /\ ScanOnly

ScanStatus ==
    /\ scan.pc = "status"
    /\ scan' = IF exchange_status[VenueOrder[scan.vi]] = "connected"
               THEN [scan EXCEPT !.pc = "ticker"]
               ELSE NextVenue(scan)
    /\ UNCHANGED <<price_graph, cycles>>
    /\ UNCHANGED mktVars
    /\ ScanOnly

\* ticker = await get_ticker(exchange, pair): the snapshot is held as read;
\* its timestamp is not looked at, whatever its age.
ScanTicker ==
    /\ scan.pc = "ticker"
    /\ LET t == tickers[<<VenueOrder[scan.vi], PairOrder[scan.pi]>>] IN
           IF ~t.present
           THEN scan' = NextPair(scan)
           ELSE \E old \in BOOLEAN :
                    scan' = [scan EXCEPT !.pc = "liquidity", !.ticker = t, !.old = old]
    /\ UNCHANGED <<price_graph, cycles>>
    /\ UNCHANGED mktVars
    /\ ScanOnly

\* check_liquidity reads the ticker again; the edges take their prices from
\* the snapshot held since ScanTicker.
ScanLiquidity ==
    /\ scan.pc = "liquidity"
    /\ LET v == VenueOrder[scan.vi]
           p == PairOrder[scan.pi]
           t == scan.ticker
           g1 == IF t.ask > 0 THEN add_edge(price_graph, BuyEdge(v, p, t, scan.old))
                 ELSE price_graph
           g2 == IF t.bid > 0 THEN add_edge(g1, SellEdge(v, p, t, scan.old)) ELSE g1
       IN IF check_liquidity(tickers[<<v, p>>])
          THEN /\ price_graph' = g2
               /\ scan' = NextPair([scan EXCEPT !.added = @ \cup {<<v, p>>}])
          ELSE /\ price_graph' = price_graph
               /\ scan' = NextPair(scan)
    /\ UNCHANGED cycles
    /\ UNCHANGED mktVars
    /\ ScanOnly

\* ---- find_negative_cycles ----------------------------------------------
RECURSIVE SetProduct(_)
SetProduct(S) ==
    IF S = {} THEN 1 ELSE LET x == CHOOSE y \in S : TRUE IN x * SetProduct(S \ {x})
\* a common multiple of every price an edge can carry
PriceLcm == SetProduct({q.ask : q \in VenueQuotes})

\* The edge weight of the search, in units of 1 / (BuyNum * SellDen * PriceLcm):
\* -(1 / effective_price) for a buy, -effective_price for a sell.
\* (a buy's 1 / effective_price is BuyDen / (price * BuyNum))
weight(e) ==
    IF e.action = "buy"
    THEN 0 - ((BuyDen * SellDen * PriceLcm) \div e.price)
    ELSE 0 - (calculate_effective_price(e.price, FALSE).num * BuyNum * PriceLcm)

log_graph(g) ==
    LET es == SelectSeq(edges(g), LAMBDA e : e.price > 0)
        N[i \in 0..Len(es)] ==
            IF i = 0 THEN <<>> ELSE add_node(add_node(N[i - 1], es[i].u), es[i].v)
    IN [nodes |-> N[Len(es)], edges |-> es]

Inf == [inf |-> TRUE, d |-> 0]
Fin(x) == [inf |-> FALSE, d |-> x]
\* distance[u] + weight < distance[v], with float('inf') for unreached nodes
Less(du, w, dv) == ~du.inf /\ (dv.inf \/ du.d + w < dv.d)

Relax(s, e) ==
    IF Less(s.distance[e.u], weight(e), s.distance[e.v])
    THEN [distance |-> [s.distance EXCEPT ![e.v] = Fin(s.distance[e.u].d + weight(e))],
          predecessor |-> [s.predecessor EXCEPT ![e.v] = e.u]]
    ELSE s
RelaxAll(s, es) ==
    LET F[i \in 0..Len(es)] == IF i = 0 THEN s ELSE Relax(F[i - 1], es[i])
    IN F[Len(es)]
RECURSIVE Rounds(_, _, _)
Rounds(s, es, n) == IF n <= 0 THEN s ELSE Rounds(RelaxAll(s, es), es, n - 1)

\* The walk back along predecessors; <<>> stands for the KeyError raised
\* when the walk steps onto a node without predecessor.
RECURSIVE Walk(_, _, _)
Walk(cycle, current, predecessor) ==
    IF current = None THEN <<>>
    ELSE IF InSeq(predecessor[current], cycle)
         THEN LET idx == Index(predecessor[current], cycle)
              IN SubSeq(cycle, idx, Len(cycle)) \o SubSeq(cycle, 1, idx - 1)
         ELSE Walk(Append(cycle, predecessor[current]), predecessor[current], predecessor)

\* mutant: the cycle is appended whether or not the list has it
append_cycle_always(found, c) == Append(found, c)

\* lines 240-241: if cycle not in cycles: cycles.append(cycle)
append_cycle(found, c) == IF InSeq(c, found) THEN found ELSE Append(found, c)

CheckFrom(source, lg, found) ==
    LET es == edges(lg)
        ns == {lg.nodes[i] : i \in 1..Len(lg.nodes)}
        start == [distance |-> [n \in ns |-> IF n = source THEN Fin(0) ELSE Inf],
                  predecessor |-> [n \in ns |-> None]]
        s == Rounds(start, es, Len(lg.nodes) - 1)
        F[i \in 0..Len(es)] ==
            IF i = 0 THEN [cycles |-> found, raised |-> FALSE]
            ELSE LET prev == F[i - 1]
                     e == es[i]
                 IN IF prev.raised \/ ~Less(s.distance[e.u], weight(e), s.distance[e.v])
                    THEN prev
                    ELSE LET c == Walk(<<e.v, e.u>>, e.u, s.predecessor) IN
                             IF c = <<>> THEN [prev EXCEPT !.raised = TRUE]
                             ELSE [prev EXCEPT !.cycles = append_cycle(@, c)]
    IN F[Len(es)].cycles

find_negative_cycles(g) ==
    LET lg == log_graph(g)
        F[i \in 0..Len(lg.nodes)] ==
            IF i = 0 THEN <<>> ELSE CheckFrom(lg.nodes[i], lg, F[i - 1])
    IN F[Len(lg.nodes)]

\* the attributes update_price_graph gives an edge (lines 158-164, 170-176)
EdgeAttrs == {"exchange", "price", "effective_price", "action"}

\* analyze_arbitrage_cycle, lines 250-271: for each step of the cycle every
\* edge of the graph is tested with data['quote'] and data['base'] (lines
\* 261, 265); a key the edge does not carry raises KeyError at the first edge
\* tested.  Without edges nothing is selected.
analyze_arbitrage_cycle(g, cycle) ==
    [done |-> TRUE,
     raised |-> /\ cycle # <<>>
                /\ edges(g) # <<>>
                /\ ~({"quote", "base"} \subseteq EdgeAttrs),
     cycle_edges |-> <<>>]

\* lines 357-358: the first reported cycle is analysed
analyze_first(g, found) ==
    IF found = <<>> THEN NoAnalysis ELSE analyze_arbitrage_cycle(g, found[1])

\* The end of update_price_graph and the rest of
\* detect_arbitrage_opportunities: the cycle search, then the analysis of
\* the first cycle, whose KeyError ends the scan in the handler of line 369;
\* nothing is persisted.
ScanCycles ==
    /\ scan.pc = "cycles"
    /\ cycles' = find_negative_cycles(price_graph)
    /\ scan' = [scan EXCEPT !.pc = "idle", !.analysis = analyze_first(price_graph, cycles')]
    /\ UNCHANGED price_graph
    /\ UNCHANGED mktVars
    /\ ScanOnly

\* ---- the cache as the engine sees it -----------------------------------
RemoteUpdateTicker(v, p, q) ==
    /\ tickers' = update_ticker(tickers, v, p, q)
    /\ UNCHANGED <<exchange_instances, connection_status, exchange_status, tasks, tickerLoop,
                   status_keys, connMonitor, recycled, leaked>>
    /\ UNCHANGED scanVars
    /\ ScanOnly

RemoteUpdateStatus(v, st) ==
    /\ exchange_status[v] # st
    /\ exchange_status' = [exchange_status EXCEPT ![v] = st]
    /\ UNCHANGED <<exchange_instances, connection_status, tasks, tickerLoop, tickers,
                   status_keys, connMonitor, recycled, leaked>>
    /\ UNCHANGED scanVars
    /\ ScanOnly

\* the ticker key's expiry, an hour after its last write
TickerExpires(v, p) ==
    /\ tickers[<<v, p>>].present
    /\ tickers' = [tickers EXCEPT ![<<v, p>>] = NoQuote]
    /\ UNCHANGED <<exchange_instances, connection_status, exchange_status, tasks, tickerLoop,
                   status_keys, connMonitor, recycled, leaked>>
    /\ UNCHANGED scanVars
    /\ ScanOnly

InitScan ==
    /\ price_graph = EmptyGraph(<<>>)
    /\ scan = IdleScan
    /\ cycles = <<>>

NextScan ==
    \/ ScanClear
    \/ ScanStatus
    \/ ScanTicker
    \/ ScanLiquidity
    \/ ScanCycles
    \/ \E v \in Venues, p \in Pairs, q \in VenueQuotes : RemoteUpdateTicker(v, p, q)
    \/ \E v \in Venues, st \in {"connected", "error"} : RemoteUpdateStatus(v, st)
    \/ \E v \in Venues, p \in Pairs : TickerExpires(v, p)

\* C21: a venue that has been set up and has lost its adapter again (torn
\* down by the error threshold or by the connection monitor) has the cached
\* status error, which is what keeps the graph builder from using it.
C21_RecycledVenueStatusError ==
    \A v \in Venues :
        (connection_status[v].known /\ v \notin exchange_instances)
        => exchange_status[v] = "error"

\* C24: the connection monitor is never ended by an exception: a change of
\* the venue table while a pass iterates it is caught and the loop goes on.
C24_MonitorNeverDies ==
    connMonitor.pc # "dead"

C26_InitializerIdempotent ==
    leaked = {}

\* C34: a call that ends without an adapter has failed and adds one to the
\* venue's error count; a call that ends after its fetch either succeeded and
\* leaves the count at 0 or failed and adds one; and the adapter is removed
\* in exactly the steps that take the count from the bound or below to above it.
C34_ErrorCountIsConsecutiveFailures ==
    [][\A t \in TaskIds :
         LET v == t[2]
             before == connection_status[v].error_count
             after == connection_status'[v].error_count
         IN /\ (tasks[t] = "init" /\ tasks'[t] = "none") => after = before + 1
            /\ (tasks[t] = "fetch" /\ tasks'[t] = "none")
               => (after = 0 \/ after = before + 1)
            /\ (v \in exchange_instances /\ v \notin exchange_instances')
               <=> (before <= ErrorThreshold /\ after > ErrorThreshold)]_vars

\* C39: when no venue call fails, the ticker loop comes to a state where
\* every venue has an adapter and every pair of it a cached ticker.
C39_LoopCreatesAdapters ==
    [](\A v \in Venues : exchange_status[v] # "error")
    => <>(\A v \in Venues :
             v \in exchange_instances /\ \A p \in Pairs : tickers[<<v, p>>].present)

\* C40: a venue whose adapter is registered and whose last call succeeded
\* (the error count is 0) reads connected in the cache.
C40_StatusRecovers ==
    \A v \in Venues :
        (v \in exchange_instances /\ connection_status[v].error_count = 0)
        => exchange_status[v] = "connected"

\* ---- claims about the rate graph and the cycle search ------------------
HasEdge(g, a, b) == \E i \in 1..Len(g.edges) : g.edges[i].u = a /\ g.edges[i].v = b
EdgeOf(g, a, b) == g.edges[CHOOSE i \in 1..Len(g.edges) : g.edges[i].u = a /\ g.edges[i].v = b]
\* the effective gain of an edge as a fraction: 1 / effective_price for a
\* buy, effective_price for a sell
Gain(e) ==
    LET eff == calculate_effective_price(e.price, e.action = "buy") IN
        IF e.action = "buy" THEN [num |-> eff.den, den |-> eff.num] ELSE eff
\* the reported list follows predecessors, so its hops run from each entry
\* to the one before it
Hops(c) == {<<c[(i % Len(c)) + 1], c[i]>> : i \in 1..Len(c)}
RECURSIVE GainProduct(_, _, _)
GainProduct(g, hs, part) ==
    IF hs = {} THEN 1
    ELSE LET h == CHOOSE x \in hs : TRUE IN
             (IF part = "num" THEN Gain(EdgeOf(g, h[1], h[2])).num
                              ELSE Gain(EdgeOf(g, h[1], h[2])).den)
             * GainProduct(g, hs \ {h}, part)
Profitable(g, c) ==
    /\ \A h \in Hops(c) : HasEdge(g, h[1], h[2])
    /\ GainProduct(g, Hops(c), "num") > GainProduct(g, Hops(c), "den")
Reported == {cycles[i] : i \in 1..Len(cycles)}
Members(c) == {c[i] : i \in 1..Len(c)}

\* C15: once a scan has searched the graph, every cycle it reports has a
\* product of effective gains above 1, and every cycle of the graph whose
\* product is above 1 is reported.  (Every configured pair is quoted in the
\* same currency, so the simple cycles of the graph are the two-edge ones.)
C15_CycleReportedIffProfitable ==
    scan.pc = "idle"
    => /\ \A c \in Reported : Profitable(price_graph, c)
       /\ \A a, b \in GraphCurrencies :
             (a # b /\ Profitable(price_graph, <<a, b>>))
             => \E c \in Reported : Members(c) = {a, b}

\* C16: at the end of a graph update every venue that passed the connection
\* and liquidity checks for a pair has its own buy edge and its own sell edge
\* between the pair's currencies.
C16_OneEdgePairPerVenue ==
    scan.pc \in {"cycles", "idle"}
    => \A k \in scan.added :
           /\ \E i \in 1..Len(price_graph.edges) :
                 /\ price_graph.edges[i].exchange = k[1]
                 /\ price_graph.edges[i].action = "buy"
                 /\ price_graph.edges[i].v = Split(k[2]).base
           /\ \E i \in 1..Len(price_graph.edges) :
                 /\ price_graph.edges[i].exchange = k[1]
                 /\ price_graph.edges[i].action = "sell"
                 /\ price_graph.edges[i].u = Split(k[2]).base

\* C17: the ticker an edge takes its price from is present and has a
\* bid-ask spread of at most MAX_BID_ASK_SPREAD, also when the ticker is
\* overwritten while the scan runs.
C17_EdgePriceFromLiquidTicker ==
    \A i \in 1..Len(price_graph.edges) :
        LET t == price_graph.edges[i].ticker IN
            /\ t.present
            /\ t.bid > 0
            /\ (t.ask - t.bid) * SpreadDen <= SpreadNum * t.bid

\* C18: no edge of the graph is built from a ticker snapshot older than the
\* staleness bound.
C18_NoEdgeFromStaleTicker ==
    \A i \in 1..Len(price_graph.edges) : ~price_graph.edges[i].old

(***************************************************************************)
(* System metrics: update_system_metric on one key.                        *)
(*                                                                         *)
(* Several tasks report the same metric (the fetches of one venue report   *)
(* latency_{venue}); each call is three cache commands with an await       *)
(* before each, and the list is what any reader of the cache sees between  *)
(* them.  An entry is represented by its timestamp.                        *)
(***************************************************************************)
MetricCap == 100
Callers == {1, 2}
IdleUpdater == [pc |-> "idle", timestamp |-> 0, calls |-> 0]

\* r.lpush(key, entry)
lpush(list, x) == <<x>> \o list
\* r.ltrim(key, 0, stop)
ltrim(list, stop) == SubSeq(list, 1, IF Len(list) < stop + 1 THEN Len(list) ELSE stop + 1)

\* line 172: the timestamp is taken, then the call awaits its LPUSH
MetricStamp(u) ==
    /\ updaters[u].pc = "idle"
    /\ clock < MaxStamps
    /\ u = 2 => updaters[u].calls < MaxOverlaps
    /\ clock' = clock + 1
    /\ updaters' = [updaters EXCEPT ![u] = [pc |-> "lpush", timestamp |-> clock + 1,
                                            calls |-> @.calls + 1]]
    /\ UNCHANGED metric
    /\ MetricOnly

\* line 175
MetricPush(u) ==
    /\ updaters[u].pc = "lpush"
    /\ metric' = lpush(metric, updaters[u].timestamp)
    /\ updaters' = [updaters EXCEPT ![u].pc = "ltrim"]
    /\ UNCHANGED clock
    /\ MetricOnly

\* lines 176-179: LTRIM 0 99; the SET of the current value leaves the list alone
MetricTrim(u) ==
    /\ updaters[u].pc = "ltrim"
    /\ metric' = ltrim(metric, MetricCap - 1)
    /\ updaters' = [updaters EXCEPT ![u].pc = "idle"]
    /\ UNCHANGED clock
    /\ MetricOnly

InitMetric ==
    /\ metric = <<>>
    /\ updaters = [u \in Callers |-> IdleUpdater]
    /\ clock = 0

NextMetric ==
    \/ \E u \in Callers : MetricStamp(u)
    \/ \E u \in Callers : MetricPush(u)
    \/ \E u \in Callers : MetricTrim(u)

\* C27: whenever the list can be read it has at most 100 entries and they
\* are in order, newest first.
C27_MetricListCappedAndOrdered ==
    /\ Len(metric) <= MetricCap
    /\ \A i \in 1..(Len(metric) - 1) : metric[i] >= metric[i + 1]

(***************************************************************************)
(* The cycle search and the analysis as functions of the graph.            *)
(*                                                                         *)
(* The graphs are those update_price_graph builds over two pairs: for each *)
(* venue in turn and each pair in turn, either nothing (venue not          *)
(* connected, no ticker, not liquid) or the two edges of a ticker.         *)
(***************************************************************************)
CyclePairOrder == <<"BTC/USDT", "ETH/USDT">>
CycleCurrencies ==
    UNION {{Split(CyclePairOrder[i]).base, Split(CyclePairOrder[i]).quote} :
              i \in 1..Len(CyclePairOrder)}
\* the (venue, pair) combinations in the order of the two loops
ScanSlots ==
    [i \in 1..(Len(VenueOrder) * Len(CyclePairOrder)) |->
        <<VenueOrder[((i - 1) \div Len(CyclePairOrder)) + 1],
          CyclePairOrder[((i - 1) % Len(CyclePairOrder)) + 1]>>]
Books == [1..Len(ScanSlots) -> VenueQuotes \cup {NoQuote}]

BuiltGraph(order, book) ==
    LET F[i \in 0..Len(ScanSlots)] ==
            IF i = 0 THEN EmptyGraph(order)
            ELSE IF ~check_liquidity(book[i]) THEN F[i - 1]
            ELSE add_edge(add_edge(F[i - 1],
                                   BuyEdge(ScanSlots[i][1], ScanSlots[i][2], book[i], FALSE)),
                          SellEdge(ScanSlots[i][1], ScanSlots[i][2], book[i], FALSE))
    IN F[Len(ScanSlots)]

\* update_price_graph run to its end on a cache that holds `book`
BuildGraph ==
    /\ \E order \in Perms(CycleCurrencies), book \in Books :
          price_graph' = BuiltGraph(order, book)
    /\ cycles' = <<>>
    /\ scan' = IdleScan
    /\ UNCHANGED mktVars
    /\ ScanOnly

FindCycles ==
    /\ price_graph.edges # <<>>
    /\ cycles' = find_negative_cycles(price_graph)
    /\ UNCHANGED <<price_graph, scan>>
    /\ UNCHANGED mktVars
    /\ ScanOnly

\* lines 357-358
AnalyzeCycle ==
    /\ cycles # <<>>
    /\ ~scan.analysis.done
    /\ scan' = [scan EXCEPT !.analysis = analyze_first(price_graph, cycles)]
    /\ UNCHANGED <<price_graph, cycles>>
    /\ UNCHANGED mktVars
    /\ ScanOnly

NextCycles ==
    \/ BuildGraph
    \/ FindCycles
    \/ AnalyzeCycle

\* C28: every reported cycle repeats no vertex and is a directed cycle of
\* the graph: from each entry to the next, and from the last back to the
\* first, the graph has an edge.  (A vertex of a tail leading into the cycle
\* has no edge to or from its neighbour in the list.)
C28_ReportedCycleIsACycle ==
    \A c \in Reported :
        /\ \A i, j \in 1..Len(c) : i # j => c[i] # c[j]
        /\ \A i \in 1..Len(c) : HasEdge(price_graph, c[i], c[(i % Len(c)) + 1])

\* the rotations of a vertex sequence
Rotations(c) ==
    {SubSeq(c, k, Len(c)) \o SubSeq(c, 1, k - 1) : k \in 1..Len(c)}

\* C29: no two entries of the reported list are rotations of one another.
C29_NoDuplicateCycles ==
    \A i, j \in 1..Len(cycles) : i # j => cycles[j] \notin Rotations(cycles[i])

\* both pairs are in the graph, every node is a source that detects a cycle,
\* and the list holds two different cycles
C29_Witness ==
    /\ Len(price_graph.edges) = 2 * Len(CyclePairOrder)
    /\ Len(cycles) >= 2
    /\ \E i, j \in 1..Len(cycles) : Len(cycles[i]) # Len(cycles[j])

\* C30: the analysis of a reported cycle selects, for each step of the
\* cycle, the edge of the graph for that step with the best effective price;
\* it does not end without a selection.
C30_BestEdgePerStep ==
    (scan.analysis.done /\ cycles # <<>>)
    => /\ ~scan.analysis.raised
       /\ Len(scan.analysis.cycle_edges) = Len(cycles[1])
       /\ \A i \in 1..Len(scan.analysis.cycle_edges) :
             LET e == scan.analysis.cycle_edges[i] IN
                 /\ e.u = cycles[1][i]
                 /\ e.v = cycles[1][(i % Len(cycles[1])) + 1]
                 /\ \A j \in 1..Len(price_graph.edges) :
                       LET f == price_graph.edges[j] IN
                           (f.u = e.u /\ f.v = e.v)
                           => IF e.action = "buy" THEN e.price <= f.price
                                                  ELSE e.price >= f.price

Init == InitExec /\ InitXfer /\ InitMkt /\ InitScan /\ InitMetric

SpecExec == Init /\ [][NextExec]_vars
SpecXfer == Init /\ [][NextXfer]_vars
SpecMkt == Init /\ [][NextMkt]_vars
SpecMon == Init /\ [][NextMon]_vars
SpecLoop == Init /\ [][NextLoop]_vars /\ WF_vars(LoopProgress)
\* the ticker loop from startup: its iterations follow one another for ever
SpecStartup ==
    /\ Init /\ [][NextMkt]_vars
    /\ \A t \in TaskIds : WF_vars(TaskStep(t))
    /\ WF_vars(TickerLoopSpawn) /\ WF_vars(TickerLoopJoin)
SpecScan == Init /\ [][NextScan]_vars
SpecMetric == Init /\ [][NextMetric]_vars
SpecCycles == Init /\ [][NextCycles]_vars
====
